---- MODULE Spec2Model ----
(***************************************************************************)
(* 3D_Tiles_Processing: the batch coordinator (processFiles), the forked   *)
(* compress workers, the planning of the optimisation steps and the        *)
(* B3DM_Extract tool, modelled from the JavaScript sources.                *)
(***************************************************************************)
EXTENDS Integers, Sequences, FiniteSets, TLC

(***************************************************************************)
(* Bounds of the model.                                                    *)
(***************************************************************************)
\* longest file list handed to processFiles
MaxFiles == 3
\* largest number of CPUs os.cpus() reports
MaxCPUs == 3
\* most textures of one scene
MaxTextures == 2

(***************************************************************************)
(* Strings are sequences of one-character strings, so that endsWith,       *)
(* replace, extname and toLowerCase are computed character by character.   *)
(***************************************************************************)
DotB3dm == <<".", "b", "3", "d", "m">>
DotGlb == <<".", "g", "l", "b">>
DotGltf == <<".", "g", "l", "t", "f">>
DotJson == <<".", "j", "s", "o", "n">>
DotB3dmUpper == <<".", "B", "3", "D", "M">>

\* String.prototype.endsWith
EndsWith(s, suf) ==
    /\ Len(suf) <= Len(s)
    /\ SubSeq(s, Len(s) - Len(suf) + 1, Len(s)) = suf

\* the places where pat occurs in s
Occurrences(s, pat) ==
    {i \in 1..(Len(s) - Len(pat) + 1) : SubSeq(s, i, i + Len(pat) - 1) = pat}

Min(S) == CHOOSE x \in S : \A y \in S : x <= y
Max(S) == CHOOSE x \in S : \A y \in S : x >= y

\* String.prototype.replace with a string pattern: the first occurrence only
ReplaceFirst(s, pat, rep) ==
    IF Occurrences(s, pat) = {} THEN s
    ELSE LET i == Min(Occurrences(s, pat))
         IN SubSeq(s, 1, i - 1) \o rep \o SubSeq(s, i + Len(pat), Len(s))

LowerChar(c) ==
    CASE c = "B" -> "b"
      [] c = "D" -> "d"
      [] c = "M" -> "m"
      [] c = "G" -> "g"
      [] c = "L" -> "l"
      [] OTHER -> c

\* String.prototype.toLowerCase
ToLowerCase(s) == [i \in 1..Len(s) |-> LowerChar(s[i])]

\* path.extname: from the last '.' of the last path segment, '' when there is
\* none or when the segment starts with its only '.'
ExtName(p) ==
    LET slashes == {i \in 1..Len(p) : p[i] = "/"}
        baseStart == IF slashes = {} THEN 1 ELSE Max(slashes) + 1
        dots == {i \in baseStart..Len(p) : p[i] = "."}
    IN IF dots = {} \/ Max(dots) = baseStart THEN <<>>
       ELSE SubSeq(p, Max(dots), Len(p))

(***************************************************************************)
(* The directory tree the coordinator is started on.  TreePaths lists, in  *)
(* readdirSync order, the paths a tree may hold.                           *)
(***************************************************************************)
TreePaths ==
    << <<"/", "a">> \o DotB3dm,
       <<"/", "a">> \o DotGlb,
       <<"/", "c">> \o DotB3dmUpper,
       <<"/", "b">> \o DotB3dm,
       <<"/", "d">> \o DotGltf >>

\* the trees of the model: the first n paths of TreePaths
Trees == {SubSeq(TreePaths, 1, n) : n \in 0..Len(TreePaths)}

\* the extensions the main thread passes to findFiles
Exts == {DotGlb, DotGltf, DotB3dm}

\* findFiles: the files of the tree whose lower-cased extension is in exts
RECURSIVE findFiles(_, _)
findFiles(list, exts) ==
    IF list = <<>> THEN <<>>
    ELSE LET file == Head(list)
             ext == ToLowerCase(ExtName(file))
         IN (IF ext \in exts THEN <<file>> ELSE <<>>) \o findFiles(Tail(list), exts)

Range(f) == {f[i] : i \in DOMAIN f}

\* compress: outputFilePath
OutputFilePath(file) ==
    IF EndsWith(file, DotB3dm) THEN ReplaceFirst(file, DotB3dm, DotGlb) ELSE file

(***************************************************************************)
(* The manifests: replaceB3dmWithGlb on a parsed JSON value, and           *)
(* updateTilesetJson on a directory of manifests.  A JSON value is a       *)
(* record [t, v]: t is "string" (v its characters), "array" (v its items), *)
(* "object" (v its members [key, value], in insertion order), or "number", *)
(* "boolean", "null" (v the characters of the literal).                    *)
(***************************************************************************)
\* the pieces the strings of the manifests are made of
Fragments == {DotB3dm, <<".", "b", "3">>, <<"d", "m">>, <<"x">>, DotGlb}

\* the strings of the manifests: up to MaxFragments pieces each
MaxFragments == 3
RECURSIVE Concatenations(_)
Concatenations(n) ==
    IF n = 0 THEN {<<>>}
    ELSE LET shorter == Concatenations(n - 1)
         IN shorter \cup {s \o f : s \in shorter, f \in Fragments}
Strings == Concatenations(MaxFragments)

JsonString(s) == [t |-> "string", v |-> s]
JsonArray(items) == [t |-> "array", v |-> items]
JsonObject(members) == [t |-> "object", v |-> members]
JsonNumber == [t |-> "number", v |-> <<"1">>]
JsonTrue == [t |-> "boolean", v |-> <<"t", "r", "u", "e">>]
JsonNull == [t |-> "null", v |-> <<"n", "u", "l", "l">>]

\* the values without items or members
Leaves == {JsonString(s) : s \in Strings} \cup {JsonNumber, JsonTrue, JsonNull}

\* the leaves put into arrays and objects
InnerLeaves ==
    {JsonString(<<"x">> \o DotB3dm), JsonString(DotB3dm \o DotB3dm),
     JsonString(<<".", "b", "3">> \o DotB3dm \o <<"d", "m">>),
     JsonString(<<"x">> \o DotGlb), JsonNumber, JsonNull}

\* the keys of the objects, one of them holding .b3dm
UriKey == <<"u", "r", "i">>
B3dmKey == <<"k">> \o DotB3dm

\* arrays and objects of up to two of the values given
Containers(values) ==
    {JsonArray(<<>>), JsonObject(<<>>)}
    \cup {JsonArray(<<a>>) : a \in values}
    \cup {JsonArray(<<a, b>>) : a \in values, b \in values}
    \cup {JsonObject(<<[key |-> k, value |-> a]>>) : k \in {UriKey, B3dmKey}, a \in values}
    \cup {JsonObject(<<[key |-> UriKey, value |-> a], [key |-> B3dmKey, value |-> b]>>) :
             a \in values, b \in values}

\* the parsed manifests: leaves, containers of leaves, and containers that hold
\* a container next to a leaf
Nested == Containers(InnerLeaves)
Manifests ==
    Leaves \cup Nested
    \cup {JsonArray(<<n, a>>) : n \in Nested, a \in InnerLeaves}
    \cup {JsonObject(<<[key |-> B3dmKey, value |-> n], [key |-> UriKey, value |-> a]>>) :
             n \in Nested, a \in InnerLeaves}

\* a replace that stops after the first match
ReplaceFirstOnly(s, pat, rep) == ReplaceFirst(s, pat, rep)

\* String.prototype.replace with a global pattern: every match, left to right
RECURSIVE ReplaceAll(_, _, _)
ReplaceAll(s, pat, rep) ==
    IF Len(s) < Len(pat) THEN s
    ELSE IF SubSeq(s, 1, Len(pat)) = pat
    THEN rep \o ReplaceAll(SubSeq(s, Len(pat) + 1, Len(s)), pat, rep)
    ELSE <<Head(s)>> \o ReplaceAll(Tail(s), pat, rep)

\* a replaceB3dmWithGlb that returns arrays as they are
replaceB3dmWithGlbSkippingArrays(obj) ==
    IF obj.t = "string" THEN JsonString(ReplaceAll(obj.v, DotB3dm, DotGlb))
    ELSE IF obj.t = "object"
    THEN JsonObject([i \in DOMAIN obj.v |->
                        [key |-> obj.v[i].key,
                         value |-> IF obj.v[i].value.t = "string"
                                   THEN JsonString(ReplaceAll(obj.v[i].value.v, DotB3dm, DotGlb))
                                   ELSE obj.v[i].value]])
    ELSE obj

\* a replaceB3dmWithGlb that rewrites the keys as well
RECURSIVE replaceB3dmWithGlbInKeys(_)
replaceB3dmWithGlbInKeys(obj) ==
    IF obj.t = "string" THEN JsonString(ReplaceAll(obj.v, DotB3dm, DotGlb))
    ELSE IF obj.t = "array"
    THEN JsonArray([i \in DOMAIN obj.v |-> replaceB3dmWithGlbInKeys(obj.v[i])])
    ELSE IF obj.t = "object"
    THEN JsonObject([i \in DOMAIN obj.v |->
                        [key |-> ReplaceAll(obj.v[i].key, DotB3dm, DotGlb),
                         value |-> replaceB3dmWithGlbInKeys(obj.v[i].value)]])
    ELSE obj

\* replaceB3dmWithGlb
RECURSIVE replaceB3dmWithGlb(_)
replaceB3dmWithGlb(obj) ==
    IF obj.t = "string" THEN JsonString(ReplaceAll(obj.v, DotB3dm, DotGlb))
    ELSE IF obj.t = "array"
    THEN JsonArray([i \in DOMAIN obj.v |-> replaceB3dmWithGlb(obj.v[i])])
    ELSE IF obj.t = "object"
    THEN JsonObject([i \in DOMAIN obj.v |->
                        [key |-> obj.v[i].key, value |-> replaceB3dmWithGlb(obj.v[i].value)]])
    ELSE obj

\* a file of the batch root: its name, what is wrong with it ("read":
\* fs.readFileSync throws, "parse": JSON.parse throws, "write":
\* fs.writeFileSync throws), the value its text denotes, the times it was
\* written and what was logged about it
File(name, fault, content) ==
    [kind |-> "file", name |-> name, fault |-> fault, content |-> content,
     writes |-> 0, report |-> ""]

\* a directory of the batch root, its entries in readdirSync order
Directory(entries) == [kind |-> "dir", entries |-> entries]

DotJsonUpper == <<".", "J", "S", "O", "N">>

\* the contents of the manifests on the disk
TilesetContent ==
    JsonObject(<<[key |-> B3dmKey,
                  value |-> JsonArray(<<JsonString(<<"x">> \o DotB3dm),
                                        JsonString(<<"x">> \o DotGlb)>>)],
                 [key |-> UriKey, value |-> JsonString(DotB3dm \o DotB3dm)]>>)
PlainContent == JsonString(<<"x">>)

\* the files a batch root holds
RootFiles ==
    {File(<<"t">> \o DotJson, fault, content) :
        fault \in {"none", "read", "parse", "write"},
        content \in {TilesetContent, PlainContent}}
    \cup {File(<<"t">> \o DotJsonUpper, "none", TilesetContent),
          File(<<"t">> \o DotGlb, "none", PlainContent)}

\* the batch roots: a file, a directory that holds a file and a directory with
\* one file, and a last file
Roots ==
    {<<f, Directory(<<g, Directory(<<h>>)>>), k>> :
        f \in RootFiles, g \in RootFiles, h \in RootFiles, k \in RootFiles}

\* a processJsonFile without its try/catch: what goes wrong is thrown on
processJsonFileUncaught(file) ==
    IF file.fault = "none"
    THEN [file EXCEPT !.content = replaceB3dmWithGlb(@), !.writes = @ + 1,
                      !.report = "updated"]
    ELSE [file EXCEPT !.report = "thrown"]

\* processJsonFile: read and parse, replace, write back; whatever is thrown is
\* caught and logged
processJsonFile(file) ==
    IF file.fault = "none"
    THEN [file EXCEPT !.content = replaceB3dmWithGlb(@), !.writes = @ + 1,
                      !.report = "updated"]
    ELSE [file EXCEPT !.report = "error"]

\* traverseDirectory: the entries in order, directories entered, .json files
\* processed; threw tells that an exception left the loop
RECURSIVE traverseDirectory(_)
traverseDirectory(entries) ==
    IF entries = <<>> THEN [entries |-> <<>>, threw |-> FALSE]
    ELSE LET e == Head(entries)
             first ==
                IF e.kind = "dir"
                THEN LET r == traverseDirectory(e.entries)
                     IN [entry |-> Directory(r.entries), threw |-> r.threw]
                ELSE IF ExtName(e.name) = DotJson
                THEN LET f == processJsonFile(e)
                     IN [entry |-> f, threw |-> f.report = "thrown"]
                ELSE [entry |-> e, threw |-> FALSE]
             rest == IF first.threw THEN [entries |-> Tail(entries), threw |-> TRUE]
                     ELSE traverseDirectory(Tail(entries))
         IN [entries |-> <<first.entry>> \o rest.entries, threw |-> rest.threw]

(***************************************************************************)
(* Scenes and the planning of the optimisation steps.  A document is what  *)
(* the worker reads of a glTF-Transform Document: the names of the         *)
(* extensions it uses and the MIME types of its textures.                  *)
(***************************************************************************)
MimeTypes == {"image/jpeg", "image/png", "image/ktx2", "image/webp"}
ExtensionNames == {"KHR_draco_mesh_compression", "KHR_texture_basisu"}

TextureLists == UNION {[1..n -> MimeTypes] : n \in 0..MaxTextures}
Documents == [extensionsUsed : SUBSET ExtensionNames, textures : TextureLists]

\* getTextureInfo: the encoding, decided by the MIME type
TextureEncoding(mimeType) ==
    CASE mimeType = "image/jpeg" -> "JPG"
      [] mimeType = "image/png" -> "PNG"
      [] mimeType = "image/ktx2" -> "KTX"
      [] OTHER -> "unknown"

getModelStatistics(document) ==
    [dracoCompression |-> "KHR_draco_mesh_compression" \in document.extensionsUsed,
     textures |-> [i \in DOMAIN document.textures |->
                      [format |-> TextureEncoding(document.textures[i])]]]

\* compress: hasKTXTexture
HasKTXTexture(stats) ==
    \E i \in DOMAIN stats.textures : stats.textures[i].format = "KTX"

\* a plan that pushes draco whenever it is requested
PlanTransformsDracoAlways(stats, useDraco, useKtx) ==
    (IF useKtx /\ ~HasKTXTexture(stats) THEN <<"toktx">> ELSE <<>>)
    \o (IF useDraco THEN <<"draco">> ELSE <<>>)

\* compress: the transforms pushed, in order
PlanTransforms(stats, useDraco, useKtx) ==
    (IF useKtx /\ ~HasKTXTexture(stats) THEN <<"toktx">> ELSE <<>>)
    \o (IF useDraco /\ ~stats.dracoCompression THEN <<"draco">> ELSE <<>>)

\* the plans compress can arrive at, over the documents it may read
PlansByOptions ==
    [o \in BOOLEAN \X BOOLEAN |->
        {PlanTransforms(getModelStatistics(document), o[1], o[2]) : document \in Documents}]

PlannedFor(useDraco, useKtx) == PlansByOptions[<<useDraco, useKtx>>]

\* the toktx transform of @gltf-transform/cli, taken to convert every texture
toktx(document) ==
    [extensionsUsed |-> IF document.textures = <<>> THEN document.extensionsUsed
                        ELSE document.extensionsUsed \cup {"KHR_texture_basisu"},
     textures |-> [i \in DOMAIN document.textures |-> "image/ktx2"]]

\* the draco transform of @gltf-transform/functions
draco(document) ==
    [document EXCEPT !.extensionsUsed = @ \cup {"KHR_draco_mesh_compression"}]

ApplyStep(document, step) ==
    IF step = "toktx" THEN toktx(document) ELSE draco(document)

\* document.transform(...transforms), every step succeeding
RECURSIVE Transform(_, _)
Transform(document, transforms) ==
    IF transforms = <<>> THEN document
    ELSE Transform(ApplyStep(document, Head(transforms)), Tail(transforms))

(***************************************************************************)
(* State.                                                                  *)
(***************************************************************************)
VARIABLES
    folderPath,       \* the main thread: what the folder argument names, "directory",
                      \* "file" or "missing"
    tool,             \* "compress": coordinator and workers; "extract": B3DM_Extract; "plan",
                      \* "codec", "paths", "manifest", "concurrency", "header": planning,
                      \* the container codec, the output path, the manifests, the
                      \* concurrency limit, the texture header alone
    workerScript,     \* the worker the coordinator forks: "part_001" or "worker-02"
    files,            \* processFiles: files, as findFiles returned them
    disk,             \* the paths that exist in the file system
    numCPUs,          \* processFiles: numCPUs
    dracoCompression, \* the draco option
    ktx,              \* the ktx option
    cpc,              \* the coordinator: "init", "running", "exit0" and "exit1" (the
                      \* process is over with that exit code)
    completedTasks,   \* processFiles: completedTasks
    activeProcesses,  \* processFiles: activeProcesses
    child,            \* the forked workers, by the index of their file
    lastRun,          \* the run of a worker that has just ended (the index of its file and
                      \* what it did), until the coordinator handles its next event
    silentExit,       \* some worker has ended without sending any message
    handled,          \* the calls of handleCompletion so far
    finishCount,      \* the calls of finishProcessing so far
    tilesetJson,      \* the .json files under the folder, as updateTilesetJson finds them
    processed,        \* updateProgress: the 'Processed' figure, completedTasks -
                      \* activeProcesses, as last printed
    xjob,             \* B3DM_Extract: the conversion of each file
    manifest,         \* B3DM_Extract: where the processing of tileset.json stands
    codec,            \* the container codec alone: the buffer and what was made of it
    scene,            \* planning alone: the document
    lastPlan,         \* planning alone: the transforms planned by the last run
    runs,             \* planning alone: the runs so far
    pureCall              \* a function of the tools alone: its argument and what it returned

vars == <<folderPath, tool, workerScript, files, disk, numCPUs, dracoCompression, ktx, cpc,
          completedTasks, activeProcesses, child, lastRun, silentExit, handled, finishCount,
          processed, tilesetJson, xjob, manifest, codec, scene, lastPlan, runs, pureCall>>

coordVars == <<cpc, completedTasks, activeProcesses, handled, finishCount, processed,
              tilesetJson>>
planVars == <<scene, lastPlan, runs>>
jobVars == <<child, lastRun, silentExit>>
argVars == <<folderPath, tool, workerScript, files, numCPUs, dracoCompression, ktx>>

totalFiles == Len(files)

\* a worker that has not been forked.  pc is "idle", "load" (running), "ended"
\* (the process is over, its 'exit' event queued with the exit code) or
\* "exited" ('exit' handled); forks counts the calls of fork for the file;
\* pending and errors count the queued 'message' and 'error' events.
IdleChild == [pc |-> "idle", forks |-> 0, pending |-> 0, errors |-> 0, code |-> -1]

\* what one run of compress has done so far; plan holds the transforms array
\* once the run has built it
NewJob ==
    [ended |-> FALSE, failed |-> "", plan |-> {}, transformFailed |-> FALSE,
     wrote |-> 0, deleted |-> 0, sent |-> 0, code |-> -1]

\* no worker has run yet
NoRun == [i |-> 0, job |-> NewJob]

\* a limit that leaves one CPU free without a floor
DefaultConcurrencyNoFloor(cpus) == cpus - 1

\* processFiles: Math.max(1, os.cpus().length - 1)
DefaultConcurrency(cpus) == IF cpus - 1 > 1 THEN cpus - 1 ELSE 1

NoScene == [extensionsUsed |-> {}, textures |-> <<>>]

\* no buffer has been handed to the codec
NoCodec == [pc |-> "none"]

\* no function is called alone
NoCall == [fn |-> "none"]

\* the manifest of a tree: one tileset.json at the root that refers to every
\* file of the tree
TilesetOf(tree) ==
    <<File(<<"t">> \o DotJson, "none", JsonArray([i \in DOMAIN tree |-> JsonString(tree[i])]))>>

InitCompress ==
    /\ tool = "compress"
    /\ workerScript \in {"part_001", "worker-02"}
    /\ folderPath \in {"directory", "file", "missing"}
    /\ \E tree \in Trees :
          /\ folderPath # "directory" => tree = <<>>
          /\ tilesetJson = TilesetOf(tree)
          /\ files = findFiles(tree, Exts)
          /\ Len(files) <= MaxFiles
          /\ disk = Range(tree)
    /\ \E cpus \in 1..MaxCPUs : numCPUs = DefaultConcurrency(cpus)
    /\ dracoCompression \in BOOLEAN
    /\ ktx \in BOOLEAN
    /\ cpc = "init"
    /\ completedTasks = 0
    /\ activeProcesses = 0
    /\ child = [i \in 1..Len(files) |-> IdleChild]
    /\ lastRun = NoRun
    /\ silentExit = FALSE
    /\ xjob = <<>>
    /\ manifest = "idle"
    /\ codec = NoCodec
    /\ handled = 0
    /\ finishCount = 0
    /\ processed = 0
    /\ scene = NoScene
    /\ lastPlan = <<>>
    /\ runs = 0
    /\ pureCall = NoCall

(***************************************************************************)
(* The coordinator: processFiles of compress_with_stats-main.js.           *)
(***************************************************************************)
\* a runChildProcess that forks the worker of the file at the head of the list
\* without moving on
runChildProcessAgain(st) ==
    [completedTasks |-> st.completedTasks,
     activeProcesses |-> st.activeProcesses + 1,
     child |-> [st.child EXCEPT ![st.completedTasks + 1] =
                   [IdleChild EXCEPT !.pc = "load", !.forks = st.child[st.completedTasks + 1].forks + 1]]]

\* runChildProcess: fork the worker of the next file
runChildProcess(st) ==
    [completedTasks |-> st.completedTasks + 1,
     activeProcesses |-> st.activeProcesses + 1,
     child |-> [st.child EXCEPT ![st.completedTasks + 1] =
                   [IdleChild EXCEPT !.pc = "load", !.forks = st.child[st.completedTasks + 1].forks + 1]]]

\* a runNextBatch that forks one worker at most
runNextOnly(st) ==
    IF st.activeProcesses < numCPUs /\ st.completedTasks < totalFiles
    THEN runChildProcess(st)
    ELSE st

\* runNextBatch: while (activeProcesses < numCPUs && completedTasks < totalFiles)
RECURSIVE runNextBatch(_)
runNextBatch(st) ==
    IF st.activeProcesses < numCPUs /\ st.completedTasks < totalFiles
    THEN runNextBatch(runChildProcess(st))
    ELSE st

\* a completion test that looks at the files dispatched alone
FinishWhenAllDispatched(done, active) == done = totalFiles

\* a completion test that looks at the free slots alone
FinishWhenIdle(done, active) == active = 0

\* handleCompletion: the branch taken once activeProcesses is decremented
FinishCondition(done, active) == done = totalFiles /\ active = 0

\* finishProcessing: the summary, then updateTilesetJson(folderPath)
finishProcessing(root) == traverseDirectory(root).entries

\* an updateProgress that prints the tasks started
updateProgressStarted(done, active) == done

\* updateProgress: the figure after 'Processed:'
updateProgress(done, active) == done - active

handleCompletion(ch) ==
    LET active == activeProcesses - 1
        st == IF ~FinishCondition(completedTasks, active) /\ active < numCPUs
              THEN runNextBatch([completedTasks |-> completedTasks,
                                 activeProcesses |-> active, child |-> ch])
              ELSE [completedTasks |-> completedTasks,
                    activeProcesses |-> active, child |-> ch]
    IN /\ handled' = handled + 1
       /\ processed' = updateProgress(completedTasks, active)
       /\ tilesetJson' = IF FinishCondition(completedTasks, active)
                         THEN finishProcessing(tilesetJson) ELSE tilesetJson
       /\ finishCount' = IF FinishCondition(completedTasks, active)
                         THEN finishCount + 1 ELSE finishCount
       /\ completedTasks' = st.completedTasks
       /\ activeProcesses' = st.activeProcesses
       /\ child' = st.child

\* the main thread: the folder argument does not name a directory, exit(1)
MainRejects ==
    /\ tool = "compress"
    /\ cpc = "init"
    /\ folderPath # "directory"
    /\ cpc' = "exit1"
    /\ UNCHANGED <<argVars, pureCall, codec, manifest, disk, completedTasks, activeProcesses,
                   handled, finishCount, processed, tilesetJson, jobVars, xjob, planVars>>

\* the main thread has nothing left to wait for (no worker alive, no event
\* queued): the process ends with exit code 0
ProcessExit ==
    /\ tool = "compress"
    /\ cpc = "running"
    /\ \A i \in DOMAIN child :
          child[i].pc \in {"idle", "exited"} /\ child[i].pending + child[i].errors = 0
    /\ cpc' = "exit0"
    /\ UNCHANGED <<argVars, pureCall, codec, manifest, disk, completedTasks, activeProcesses,
                   handled, finishCount, processed, tilesetJson, jobVars, xjob, planVars>>

\* the main thread on a directory: findFiles, then processFiles with its
\* initial runNextBatch
Start ==
    /\ tool = "compress"
    /\ cpc = "init"
    /\ folderPath = "directory"
    /\ cpc' = "running"
    /\ LET st == runNextBatch([completedTasks |-> completedTasks,
                               activeProcesses |-> activeProcesses, child |-> child])
       IN /\ completedTasks' = st.completedTasks
          /\ activeProcesses' = st.activeProcesses
          /\ child' = st.child
    /\ lastRun' = NoRun
    /\ UNCHANGED <<argVars, pureCall, codec, manifest, disk, silentExit, handled, finishCount, processed, tilesetJson, xjob, planVars>>

\* child.on('message')
OnMessage(i) ==
    /\ tool = "compress"
    /\ child[i].pending > 0
    /\ handleCompletion([child EXCEPT ![i].pending = @ - 1])
    /\ lastRun' = NoRun
    /\ UNCHANGED <<argVars, pureCall, codec, manifest, disk, cpc, silentExit, xjob, planVars>>

\* child.on('error')
OnError(i) ==
    /\ tool = "compress"
    /\ child[i].errors > 0
    /\ handleCompletion([child EXCEPT ![i].errors = @ - 1])
    /\ lastRun' = NoRun
    /\ UNCHANGED <<argVars, pureCall, codec, manifest, disk, cpc, silentExit, xjob, planVars>>

\* child.on('exit'): logs a non-zero code, and nothing else
OnExit(i) ==
    /\ tool = "compress"
    /\ child[i].pc = "ended"
    /\ child' = [child EXCEPT ![i].pc = "exited", ![i].code = -1]
    /\ lastRun' = NoRun
    /\ UNCHANGED <<argVars, pureCall, codec, manifest, disk, coordVars, silentExit, xjob, planVars>>

(***************************************************************************)
(* The worker: compress of part_001 and of compress_with_stats-worker-02.  *)
(* Worker i runs on files[i].                                              *)
(***************************************************************************)
IsB3dm(file) == EndsWith(file, DotB3dm)
IsGlbOrGltf(file) == EndsWith(file, DotGlb) \/ EndsWith(file, DotGltf)

\* process.send n times, then process.exit(code)
SendAndExit(c, n, code) ==
    [c EXCEPT !.ended = TRUE, !.sent = @ + n, !.code = code]

\* the messages of compress(...).catch: one in part_001, two in worker-02
CatchMessages == IF workerScript = "worker-02" THEN 2 ELSE 1

\* compress(...).catch: report the exception thrown by the call named, exit(1)
CatchHandler(c, call) == SendAndExit([c EXCEPT !.failed = call], CatchMessages, 1)

\* an error report from inside compress for the call named, then exit(1)
ReportError(c, call) == SendAndExit([c EXCEPT !.failed = call], 1, 1)

\* the success report, then exit(0)
ReportSuccess(c) == SendAndExit(c, 1, 0)

(***************************************************************************)
(* compress, as a chain of stages.  A stage takes and returns               *)
(* [c: the worker, disk: the file system]; env holds what the environment   *)
(* answers during the run:                                                  *)
(*   fails        the pureCall that fails, if any: "read" (fs.readFileSync or   *)
(*                readInt32LE throws), "decode" (io.readBinary or io.read   *)
(*                rejects), "serialise" (io.writeBinary rejects), "write"   *)
(*                (fs.writeFileSync throws), "unlink" (fs.unlinkSync        *)
(*                throws); the run ends at the first of them                *)
(*   transforms   the transforms planned for the document that was read     *)
(*   transformOk  document.transform resolves                               *)
(***************************************************************************)
Envs(useDraco, useKtx) ==
    [fails : {"none", "read", "decode", "serialise", "write", "unlink"},
     transforms : PlannedFor(useDraco, useKtx), transformOk : BOOLEAN]

Exited(st) == st.c.ended

\* if (file.endsWith('.b3dm')) fs.unlinkSync(file); then the success report
UnlinkStage(st, file, env) ==
    IF ~IsB3dm(file) THEN [st EXCEPT !.c = ReportSuccess(st.c)]
    ELSE IF env.fails # "unlink" /\ file \in st.disk
    THEN [c |-> ReportSuccess([st.c EXCEPT !.deleted = @ + 1]), disk |-> st.disk \ {file}]
    ELSE [st EXCEPT !.c = CatchHandler(st.c, "unlink")]

\* a write stage that goes on to the unlink whether or not the output was written
WriteStageThenUnlinkAnyway(st, file, env) ==
    UnlinkStage(IF env.fails # "write"
                THEN [c |-> [st.c EXCEPT !.wrote = @ + 1],
                      disk |-> st.disk \cup {OutputFilePath(file)}]
                ELSE st, file, env)

\* fs.writeFileSync(outputFilePath, glbBuffer)
WriteStage(st, file, env) ==
    IF env.fails # "write"
    THEN UnlinkStage([c |-> [st.c EXCEPT !.wrote = @ + 1],
                      disk |-> st.disk \cup {OutputFilePath(file)}], file, env)
    ELSE [st EXCEPT !.c = CatchHandler(st.c, "write")]

\* io.writeBinary(document), and the report when it yields no buffer
SerialiseStage(st, file, env) ==
    IF env.fails # "serialise" THEN WriteStage(st, file, env)
    ELSE [st EXCEPT !.c = ReportError(st.c, "serialise")]

\* what compress does once document.transform has rejected: it logs and goes on
AfterTransformFailure(st) == [st EXCEPT !.c.transformFailed = TRUE]

\* part_001 calls document.transform only when transforms were pushed
TransformCalled(transforms) == workerScript = "worker-02" \/ transforms # <<>>

\* a worker that treats an empty transforms array as an error
TransformStageNeedsWork(st, file, env) ==
    IF env.transforms = <<>>
    THEN [st EXCEPT !.c = ReportError([st.c EXCEPT !.plan = {env.transforms}], "nothing to do")]
    ELSE SerialiseStage([st EXCEPT !.c.plan = {env.transforms}], file, env)

\* the transforms array is built, then document.transform(...transforms).catch(...)
TransformStage(st, file, env) ==
    LET p == [st EXCEPT !.c.plan = {env.transforms}]
        t == IF TransformCalled(env.transforms) /\ env.transforms # <<>> /\ ~env.transformOk
             THEN AfterTransformFailure(p) ELSE p
    IN IF Exited(t) THEN t ELSE SerialiseStage(t, file, env)

\* reading the input into a document
ReadStage(st, file, env) ==
    IF ~IsB3dm(file) /\ ~IsGlbOrGltf(file)
    THEN [st EXCEPT !.c = ReportError(st.c, "unsupported")]
    ELSE IF IsB3dm(file) /\ env.fails = "read"
    THEN [st EXCEPT !.c = CatchHandler(st.c, "read")]
    ELSE IF env.fails = "decode" THEN [st EXCEPT !.c = ReportError(st.c, "decode")]
    ELSE TransformStage(st, file, env)

\* compress(file, dracoCompression, ktx)
compress(st, file, env) ==
    IF file \notin st.disk THEN [st EXCEPT !.c = ReportError(st.c, "missing")]
    ELSE ReadStage(st, file, env)

\* the worker's process once it is over: its messages and its 'exit' queued
EndedChild(ch, job) ==
    [ch EXCEPT !.pc = "ended", !.pending = job.sent, !.errors = 0, !.code = job.code]

\* one run of the worker on files[i]
WorkerRun(i) ==
    /\ tool = "compress"
    /\ child[i].pc = "load"
    /\ \E env \in Envs(dracoCompression, ktx) :
          LET st == compress([c |-> NewJob, disk |-> disk], files[i], env)
          IN /\ child' = [child EXCEPT ![i] = EndedChild(child[i], st.c)]
             /\ lastRun' = [i |-> i, job |-> st.c]
             /\ disk' = st.disk
    /\ UNCHANGED <<argVars, pureCall, codec, manifest, coordVars, silentExit, xjob, planVars>>

\* the input is removed between its discovery and the worker's existsSync
FileVanishes(i) ==
    /\ tool = "compress"
    /\ child[i].pc = "load"
    /\ files[i] \in disk
    /\ disk' = disk \ {files[i]}
    /\ UNCHANGED <<argVars, pureCall, codec, manifest, coordVars, child, lastRun, silentExit, xjob, planVars>>

\* the worker process dies in a native codec or is killed: no message, only 'exit'
WorkerCrash(i) ==
    /\ tool = "compress"
    /\ child[i].pc = "load"
    /\ LET job == SendAndExit([NewJob EXCEPT !.failed = "crash"], 0, 134)
       IN /\ child' = [child EXCEPT ![i] = EndedChild(child[i], job)]
          /\ lastRun' = [i |-> i, job |-> job]
    /\ silentExit' = TRUE
    /\ UNCHANGED <<argVars, pureCall, codec, manifest, disk, coordVars, xjob, planVars>>

\* fork fails to spawn the worker: only 'error' is emitted
SpawnError(i) ==
    /\ tool = "compress"
    /\ child[i].pc = "load"
    /\ child' = [child EXCEPT ![i] = [child[i] EXCEPT !.pc = "exited", !.errors = 1]]
    /\ UNCHANGED <<argVars, pureCall, codec, manifest, disk, coordVars, lastRun, silentExit, xjob, planVars>>

(***************************************************************************)
(* B3DM_Extract (app-02.js, the variant that deletes the originals): every *)
(* file is read, its payload written beside it, and the original unlinked, *)
(* each step in the callback of the one before.                            *)
(***************************************************************************)
\* the fdir crawl: the files whose path ends with '.b3dm'
RECURSIVE crawl(_)
crawl(list) ==
    IF list = <<>> THEN <<>>
    ELSE (IF EndsWith(Head(list), DotB3dm) THEN <<Head(list)>> ELSE <<>>) \o crawl(Tail(list))

\* a conversion whose readFile has not been issued
IdleExtract == [pc |-> "idle", written |-> FALSE]

InitExtract ==
    /\ tool = "extract"
    /\ folderPath = "directory"
    /\ workerScript = "none"
    /\ \E tree \in Trees :
          /\ files = crawl(tree)
          /\ Len(files) <= MaxFiles
          /\ disk = Range(tree)
    /\ numCPUs = 1
    /\ dracoCompression = FALSE
    /\ ktx = FALSE
    /\ cpc = "init"
    /\ completedTasks = 0
    /\ activeProcesses = 0
    /\ child = <<>>
    /\ lastRun = NoRun
    /\ silentExit = FALSE
    /\ handled = 0
    /\ finishCount = 0
    /\ processed = 0
    /\ tilesetJson = <<>>
    /\ xjob = [i \in 1..Len(files) |-> IdleExtract]
    /\ manifest = "idle"
    /\ codec = NoCodec
    /\ scene = NoScene
    /\ lastPlan = <<>>
    /\ runs = 0
    /\ pureCall = NoCall

\* api.withPromise().then: exit when nothing was found, else readFile for every file
ExtractStart ==
    /\ tool = "extract"
    /\ cpc = "init"
    /\ cpc' = IF files = <<>> THEN "exited" ELSE "running"
    /\ xjob' = [i \in DOMAIN xjob |-> [xjob[i] EXCEPT !.pc = "reading"]]
    /\ manifest' = IF files = <<>> THEN manifest ELSE "reading"
    /\ UNCHANGED <<argVars, pureCall, codec, disk, completedTasks, activeProcesses, handled, finishCount, processed, tilesetJson,
                   jobVars, planVars>>

\* the callback of fs.writeFile: unlink the original unless err
WriteCallback(job, err) ==
    IF err THEN [job EXCEPT !.pc = "failed"]
    ELSE [job EXCEPT !.pc = "unlinking", !.written = TRUE]

\* the callback of fs.readFile: err, a buffer too short for the header (the
\* RangeError of readInt32LE is not caught and ends the process), or writeFile
ExtractRead(i) ==
    /\ tool = "extract"
    /\ cpc = "running"
    /\ xjob[i].pc = "reading"
    /\ \/ /\ xjob' = [xjob EXCEPT ![i].pc = "failed"]
          /\ UNCHANGED cpc
       \/ /\ files[i] \in disk
          /\ xjob' = [xjob EXCEPT ![i].pc = "failed"]
          /\ cpc' = "exited"
       \/ /\ files[i] \in disk
          /\ xjob' = [xjob EXCEPT ![i].pc = "writing"]
          /\ UNCHANGED cpc
    /\ UNCHANGED <<argVars, pureCall, codec, manifest, disk, completedTasks, activeProcesses, handled, finishCount, processed, tilesetJson,
                   jobVars, planVars>>

\* fs.writeFile(outputFilePath, glbBytes, callback)
ExtractWrite(i) ==
    /\ tool = "extract"
    /\ cpc = "running"
    /\ xjob[i].pc = "writing"
    /\ \E err \in BOOLEAN :
          /\ xjob' = [xjob EXCEPT ![i] = WriteCallback(xjob[i], err)]
          /\ disk' = IF err THEN disk ELSE disk \cup {ReplaceFirst(files[i], DotB3dm, DotGlb)}
    /\ UNCHANGED <<argVars, pureCall, codec, manifest, coordVars, jobVars, planVars>>

\* fs.unlink(file, callback)
ExtractUnlink(i) ==
    /\ tool = "extract"
    /\ cpc = "running"
    /\ xjob[i].pc = "unlinking"
    /\ \E err \in BOOLEAN :
          /\ ~err => files[i] \in disk
          /\ xjob' = [xjob EXCEPT ![i].pc = IF err THEN "failed" ELSE "deleted"]
          /\ disk' = IF err THEN disk ELSE disk \ {files[i]}
    /\ UNCHANGED <<argVars, pureCall, codec, manifest, coordVars, jobVars, planVars>>

\* the conversions whose callbacks are still to come
InFlight == {i \in DOMAIN xjob : xjob[i].pc \in {"reading", "writing", "unlinking"}}

\* the callback of fs.readFile(tilesetJsonPath): err or a JSON.parse error ends
\* the processing, else the references are replaced and fs.writeFile is issued
ExtractManifestRead ==
    /\ tool = "extract"
    /\ cpc = "running"
    /\ manifest = "reading"
    /\ \E ok \in BOOLEAN : manifest' = IF ok THEN "writing" ELSE "failed"
    /\ UNCHANGED <<argVars, pureCall, codec, disk, coordVars, jobVars, xjob, planVars>>

\* the callback of fs.writeFile(tilesetJsonPath, ...)
ExtractManifestWrite ==
    /\ tool = "extract"
    /\ cpc = "running"
    /\ manifest = "writing"
    /\ \E err \in BOOLEAN : manifest' = IF err THEN "failed" ELSE "written"
    /\ UNCHANGED <<argVars, pureCall, codec, disk, coordVars, jobVars, xjob, planVars>>

(***************************************************************************)
(* Planning alone: one document and one pair of options, planned and       *)
(* transformed run after run.                                              *)
(***************************************************************************)
\* the runs of the planning-alone specification
MaxRuns == 2

InitPlan ==
    /\ tool = "plan"
    /\ folderPath = "directory"
    /\ workerScript \in {"part_001", "worker-02"}
    /\ files = <<>>
    /\ disk = {}
    /\ numCPUs = 1
    /\ dracoCompression \in BOOLEAN
    /\ ktx \in BOOLEAN
    /\ cpc = "init"
    /\ completedTasks = 0
    /\ activeProcesses = 0
    /\ child = <<>>
    /\ lastRun = NoRun
    /\ silentExit = FALSE
    /\ handled = 0
    /\ finishCount = 0
    /\ processed = 0
    /\ tilesetJson = <<>>
    /\ xjob = <<>>
    /\ manifest = "idle"
    /\ codec = NoCodec
    /\ scene \in Documents
    /\ lastPlan = <<>>
    /\ runs = 0
    /\ pureCall = NoCall

\* compress on a document that is read, transformed and serialised without failure
PlanRun ==
    /\ tool = "plan"
    /\ runs < MaxRuns
    /\ LET transforms == PlanTransforms(getModelStatistics(scene), dracoCompression, ktx)
       IN /\ lastPlan' = transforms
          /\ scene' = Transform(scene, transforms)
    /\ runs' = runs + 1
    /\ UNCHANGED <<argVars, pureCall, codec, manifest, disk, coordVars, jobVars, xjob>>

(***************************************************************************)
(* The container codec: the header arithmetic that compress.js, the        *)
(* decompress script, the workers and B3DM_Extract each carry a copy of.   *)
(* A buffer is a sequence of bytes (0..255).                               *)
(***************************************************************************)
\* const featureTableStart = 28: the seven 4-byte fields of the header
featureTableStart == 28

\* buf.readInt32LE(offset) throws a RangeError unless the four bytes are there
CanRead(buf, offset) == offset + 4 <= Len(buf)

\* buf.readInt32LE(offset): little-endian, two's complement
readInt32LE(buf, offset) ==
    buf[offset + 1] + 256 * buf[offset + 2] + 65536 * buf[offset + 3]
       + 16777216 * (IF buf[offset + 4] >= 128 THEN buf[offset + 4] - 256 ELSE buf[offset + 4])

\* header.writeInt32LE(value, offset): the four bytes written
writeInt32LE(value) ==
    <<value % 256, (value \div 256) % 256, (value \div 65536) % 256,
      (value \div 16777216) % 256>>

\* an index of subarray: negative ones count from the end, all are clamped
ClampIndex(i, len) == IF i < 0 THEN Max({len + i, 0}) ELSE Min({i, len})

\* a subarray that takes the byte at end as well
subarrayInclusive(buf, start, end) ==
    SubSeq(buf, ClampIndex(start, Len(buf)) + 1, ClampIndex(end + 1, Len(buf)))

\* buf.subarray(start, end)
subarray(buf, start, end) ==
    SubSeq(buf, ClampIndex(start, Len(buf)) + 1, ClampIndex(end, Len(buf)))

\* Buffer.concat(list, totalLength): cut or zero-filled to totalLength
concat(bytes, totalLength) ==
    [i \in 1..totalLength |-> IF i <= Len(bytes) THEN bytes[i] ELSE 0]

\* the copies of the decoder: compress.js stands for the ones that cut the
\* payload at the header's byteLength and hand it to io.readBinary (also
\* decompress and worker-02), part_001 takes the payload to the end of the
\* buffer, app-02.js writes the payload out without reading it
Decoders == {"compress.js", "part_001", "app-02.js"}

\* the header fields and the slices a decoder takes from a buffer of 28 bytes or more
decode(buf, decoder) ==
    LET byteLength == readInt32LE(buf, 8)
        featureTableJSONByteLength == readInt32LE(buf, 12)
        featureTableBinaryByteLength == readInt32LE(buf, 16)
        batchTableJSONByteLength == readInt32LE(buf, 20)
        batchTableBinaryByteLength == readInt32LE(buf, 24)
        featureTableLength == featureTableJSONByteLength + featureTableBinaryByteLength
        batchTableStart == featureTableStart + featureTableJSONByteLength
                              + featureTableBinaryByteLength
        batchTableLength == batchTableJSONByteLength + batchTableBinaryByteLength
        glbStart == batchTableStart + batchTableLength
    IN [magic |-> readInt32LE(buf, 0),
        version |-> readInt32LE(buf, 4),
        byteLength |-> byteLength,
        featureTableJSONByteLength |-> featureTableJSONByteLength,
        featureTableBinaryByteLength |-> featureTableBinaryByteLength,
        batchTableJSONByteLength |-> batchTableJSONByteLength,
        batchTableBinaryByteLength |-> batchTableBinaryByteLength,
        featureTableLength |-> featureTableLength,
        batchTableLength |-> batchTableLength,
        featureTable |-> subarray(buf, featureTableStart,
                                  featureTableStart + featureTableLength),
        batchTable |-> subarray(buf, batchTableStart, batchTableStart + batchTableLength),
        glbStart |-> glbStart,
        glbBytes |-> IF decoder = "part_001" THEN subarray(buf, glbStart, Len(buf))
                     ELSE subarray(buf, glbStart, byteLength)]

\* compress.js: the header and the buffer written back around the payload glb
encode(parts, glb) ==
    LET totalLength == 28 + parts.featureTableLength + parts.batchTableLength + Len(glb)
        header == writeInt32LE(parts.magic) \o writeInt32LE(parts.version)
                     \o writeInt32LE(totalLength)
                     \o writeInt32LE(parts.featureTableJSONByteLength)
                     \o writeInt32LE(parts.featureTableBinaryByteLength)
                     \o writeInt32LE(parts.batchTableJSONByteLength)
                     \o writeInt32LE(parts.batchTableBinaryByteLength)
    IN concat(header \o parts.featureTable \o parts.batchTable \o glb, totalLength)

\* the containers handed to the codec: a header of 28 bytes, then the feature
\* table, the batch table and the payload, of these lengths
MaxTableBytes == 1
FeatureTableJSONLengths == {0, 2, 10}
PayloadLengths == {0, 1, 3, 100}

Layouts ==
    [ftj : FeatureTableJSONLengths, ftb : 0..MaxTableBytes, btj : 0..MaxTableBytes,
     btb : 0..MaxTableBytes, glb : PayloadLengths]

\* the bytes that follow the header, each told from its neighbours
Body(n) == [i \in 1..n |-> (i % 255) + 1]

\* the magic 'b3dm'
Magic == <<98, 51, 100, 109>>

\* a container whose header agrees with its bytes
Container(l) ==
    LET n == l.ftj + l.ftb + l.btj + l.btb + l.glb
    IN Magic \o writeInt32LE(1) \o writeInt32LE(28 + n) \o writeInt32LE(l.ftj)
          \o writeInt32LE(l.ftb) \o writeInt32LE(l.btj) \o writeInt32LE(l.btb) \o Body(n)

\* the payload that was put into Container(l)
Payload(l) == SubSeq(Container(l), Len(Container(l)) - l.glb + 1, Len(Container(l)))

\* buf with the four bytes at offset replaced
SetWord(buf, offset, word) ==
    [i \in 1..Len(buf) |-> IF i \in (offset + 1)..(offset + 4) THEN word[i - offset] ELSE buf[i]]

\* what may have happened to a file before it is read
Damages ==
    {"none", "byteLength+1", "byteLength-1", "byteLength=0", "trailing", "cut27", "cut8",
     "cutPayload", "highBit", "wrap"}

Damaged(l, damage) ==
    LET buf == Container(l)
    IN CASE damage = "none" -> buf
         [] damage = "byteLength+1" -> SetWord(buf, 8, writeInt32LE(Len(buf) + 1))
         [] damage = "byteLength-1" -> SetWord(buf, 8, writeInt32LE(Len(buf) - 1))
         [] damage = "byteLength=0" -> SetWord(buf, 8, writeInt32LE(0))
         [] damage = "trailing" -> buf \o <<0>>
         [] damage = "cut27" -> SubSeq(buf, 1, 27)
         [] damage = "cut8" -> SubSeq(buf, 1, 8)
         [] damage = "cutPayload" -> SubSeq(buf, 1, Len(buf) - 1)
         [] damage = "highBit" -> SetWord(buf, 12, <<0, 0, 0, 128>>)
         [] damage = "wrap" ->
               SetWord(SetWord(buf, 12, <<254, 255, 255, 255>>), 20, writeInt32LE(l.btj + 2))

InitCodec ==
    /\ tool = "codec"
    /\ folderPath = "directory"
    /\ workerScript = "none"
    /\ files = <<>>
    /\ disk = {}
    /\ numCPUs = 1
    /\ dracoCompression = FALSE
    /\ ktx = FALSE
    /\ cpc = "init"
    /\ completedTasks = 0
    /\ activeProcesses = 0
    /\ child = <<>>
    /\ lastRun = NoRun
    /\ silentExit = FALSE
    /\ handled = 0
    /\ finishCount = 0
    /\ processed = 0
    /\ tilesetJson = <<>>
    /\ xjob = <<>>
    /\ manifest = "idle"
    /\ \E l \in Layouts, damage \in Damages, decoder \in Decoders :
          codec = [pc |-> "start", decoder |-> decoder, damage |-> damage,
                   buffer |-> Damaged(l, damage), glb |-> Payload(l),
                   parts |-> <<>>, newGlb |-> <<>>, out |-> <<>>]
    /\ scene = NoScene
    /\ lastPlan = <<>>
    /\ runs = 0
    /\ pureCall = NoCall

\* io.readBinary(glbBytes): the payload that was put into the file is read, no
\* bytes at all are rejected, anything else is for the library to decide
ReadBinaryOutcomes(glbBytes, glb) ==
    IF glbBytes = <<>> THEN {FALSE} ELSE IF glbBytes = glb THEN {TRUE} ELSE BOOLEAN

\* reading the header and the slices, then io.readBinary (not in app-02.js)
CodecDecode ==
    /\ tool = "codec"
    /\ codec.pc = "start"
    /\ IF ~CanRead(codec.buffer, 24)
       THEN codec' = [codec EXCEPT !.pc = "thrown"]
       ELSE LET parts == decode(codec.buffer, codec.decoder)
            IN \E ok \in (IF codec.decoder = "app-02.js" THEN {TRUE}
                         ELSE ReadBinaryOutcomes(parts.glbBytes, codec.glb)) :
                  codec' = IF ok THEN [codec EXCEPT !.pc = "decoded", !.parts = parts]
                           ELSE [codec EXCEPT !.pc = "rejected"]
    /\ UNCHANGED <<argVars, pureCall, manifest, disk, coordVars, jobVars, xjob, planVars>>

\* a payload that io.writeBinary returns when the document has changed
NewPayload == <<201, 202, 203, 204, 205>>

\* Buffer.concat throws on a negative totalLength
EncodeThrows(parts, glb) ==
    28 + parts.featureTableLength + parts.batchTableLength + Len(glb) < 0

\* compress.js: io.writeBinary, the new header, Buffer.concat
CodecEncode ==
    /\ tool = "codec"
    /\ codec.pc = "decoded"
    /\ codec.decoder = "compress.js"
    /\ \E glb \in {codec.parts.glbBytes, NewPayload}, ok \in BOOLEAN :
          codec' = IF ~ok \/ EncodeThrows(codec.parts, glb)
                   THEN [codec EXCEPT !.pc = "thrown"]
                   ELSE [codec EXCEPT !.pc = "encoded", !.newGlb = glb,
                                      !.out = encode(codec.parts, glb)]
    /\ UNCHANGED <<argVars, pureCall, manifest, disk, coordVars, jobVars, xjob, planVars>>

NextCodec == CodecDecode \/ CodecEncode

(***************************************************************************)
(* The output path alone: the expression that names the file a conversion  *)
(* writes, in the workers and in B3DM_Extract, on paths of up to two       *)
(* directories.                                                            *)
(***************************************************************************)
\* the directory names of the paths, one of them ending in .b3dm
DirNames == {<<"/", "d">>, <<"/", "x">> \o DotB3dm, <<"/", "t", ".", "b", "3">>}

\* the chains of up to two directories
DirChains == {<<>>} \cup DirNames \cup {d \o e : d \in DirNames, e \in DirNames}

\* the base names, one of them holding .b3dm before the extension
BaseNames == {<<"/", "a">>, <<"/", "a">> \o DotB3dm}

\* the extensions of the paths
PathExts == {DotB3dm, DotGlb, DotGltf, DotB3dmUpper}

Paths == {d \o b \o e : d \in DirChains, b \in BaseNames, e \in PathExts}

\* app-02.js: const outputFilePath = file.replace('.b3dm', '.glb')
ExtractOutputFilePath(file) == ReplaceFirst(file, DotB3dm, DotGlb)

InitPaths ==
    /\ tool = "paths"
    /\ folderPath = "directory"
    /\ workerScript \in {"part_001", "worker-02", "app-02.js"}
    /\ files = <<>>
    /\ disk = {}
    /\ numCPUs = 1
    /\ dracoCompression = FALSE
    /\ ktx = FALSE
    /\ cpc = "init"
    /\ completedTasks = 0
    /\ activeProcesses = 0
    /\ child = <<>>
    /\ lastRun = NoRun
    /\ silentExit = FALSE
    /\ handled = 0
    /\ finishCount = 0
    /\ processed = 0
    /\ tilesetJson = <<>>
    /\ xjob = <<>>
    /\ manifest = "idle"
    /\ codec = NoCodec
    /\ scene = NoScene
    /\ lastPlan = <<>>
    /\ runs = 0
    /\ \E file \in Paths :
          \* B3DM_Extract converts the files its crawl collected
          /\ workerScript = "app-02.js" => crawl(<<file>>) = <<file>>
          /\ pureCall = [fn |-> "outputFilePath", file |-> file, done |-> FALSE,
                     outputFilePath |-> <<>>]

\* the script names the output of its file
PathCall ==
    /\ tool = "paths"
    /\ ~pureCall.done
    /\ pureCall' = [pureCall EXCEPT !.done = TRUE,
                            !.outputFilePath =
                               IF workerScript = "app-02.js"
                               THEN ExtractOutputFilePath(pureCall.file)
                               ELSE OutputFilePath(pureCall.file)]
    /\ UNCHANGED <<argVars, codec, manifest, disk, coordVars, jobVars, xjob, planVars>>

(***************************************************************************)
(* The manifests alone, as the specification SpecManifest runs them.       *)
(***************************************************************************)
\* the calls of replaceB3dmWithGlb made on one value, each on the result of the
\* one before
MaxCalls == 2

InitManifest ==
    /\ tool = "manifest"
    /\ folderPath = "directory"
    /\ workerScript \in {"part_001"}
    /\ files = <<>>
    /\ disk = {}
    /\ numCPUs = 1
    /\ dracoCompression = FALSE
    /\ ktx = FALSE
    /\ cpc = "init"
    /\ completedTasks = 0
    /\ activeProcesses = 0
    /\ child = <<>>
    /\ lastRun = NoRun
    /\ silentExit = FALSE
    /\ handled = 0
    /\ finishCount = 0
    /\ processed = 0
    /\ tilesetJson = <<>>
    /\ xjob = <<>>
    /\ manifest = "idle"
    /\ codec = NoCodec
    /\ scene = NoScene
    /\ lastPlan = <<>>
    /\ runs = 0
    /\ \/ \E obj \in Manifests :
             pureCall = [fn |-> "replaceB3dmWithGlb", obj |-> obj, results |-> <<>>]
       \/ \E root \in Roots :
             pureCall = [fn |-> "updateTilesetJson", before |-> root, root |-> root,
                         threw |-> FALSE, done |-> FALSE]

\* replaceB3dmWithGlb(obj), then replaceB3dmWithGlb of what it returned
ReplaceCall ==
    /\ tool = "manifest"
    /\ pureCall.fn = "replaceB3dmWithGlb"
    /\ Len(pureCall.results) < MaxCalls
    /\ LET obj == IF pureCall.results = <<>> THEN pureCall.obj
                  ELSE pureCall.results[Len(pureCall.results)]
       IN pureCall' = [pureCall EXCEPT !.results = Append(@, replaceB3dmWithGlb(obj))]
    /\ UNCHANGED <<argVars, codec, manifest, disk, coordVars, jobVars, xjob, planVars>>

\* updateTilesetJson(folderPath)
UpdateCall ==
    /\ tool = "manifest"
    /\ pureCall.fn = "updateTilesetJson"
    /\ ~pureCall.done
    /\ LET r == traverseDirectory(pureCall.root)
       IN pureCall' = [pureCall EXCEPT !.root = r.entries, !.threw = r.threw, !.done = TRUE]
    /\ UNCHANGED <<argVars, codec, manifest, disk, coordVars, jobVars, xjob, planVars>>

NextManifest == ReplaceCall \/ UpdateCall

(***************************************************************************)
(* The concurrency limit alone: processFiles computes numCPUs from the     *)
(* number of CPUs the machine reports.                                     *)
(***************************************************************************)
\* the most CPUs a machine reports
MaxCores == 64

InitConcurrency ==
    /\ tool = "concurrency"
    /\ folderPath = "directory"
    /\ workerScript = "part_001"
    /\ files = <<>>
    /\ disk = {}
    /\ numCPUs = 0
    /\ dracoCompression = FALSE
    /\ ktx = FALSE
    /\ cpc = "init"
    /\ completedTasks = 0
    /\ activeProcesses = 0
    /\ child = <<>>
    /\ lastRun = NoRun
    /\ silentExit = FALSE
    /\ handled = 0
    /\ finishCount = 0
    /\ processed = 0
    /\ tilesetJson = <<>>
    /\ xjob = <<>>
    /\ manifest = "idle"
    /\ codec = NoCodec
    /\ scene = NoScene
    /\ lastPlan = <<>>
    /\ runs = 0
    /\ \E cpus \in 1..MaxCores :
          pureCall = [fn |-> "processFiles", cpus |-> cpus, done |-> FALSE]

\* const numCPUs = Math.max(1, os.cpus().length - 1)
ConcurrencyCall ==
    /\ tool = "concurrency"
    /\ ~pureCall.done
    /\ numCPUs' = DefaultConcurrency(pureCall.cpus)
    /\ pureCall' = [pureCall EXCEPT !.done = TRUE]
    /\ UNCHANGED <<folderPath, tool, workerScript, files, dracoCompression, ktx, codec,
                   manifest, disk, coordVars, jobVars, xjob, planVars>>

(***************************************************************************)
(* The texture header alone: parseKTXHeader on the bytes of an image.      *)
(***************************************************************************)
\* KTX_IDENTIFIERS[0] and KTX_IDENTIFIERS[1]
KTX1Identifier == <<171, 75, 84, 88, 32, 49, 49, 187, 13, 10, 26, 10>>
KTX2Identifier == <<171, 75, 84, 88, 32, 50, 48, 187, 13, 10, 26, 10>>

\* the first 12 bytes of the images: the two identifiers, identifiers with one
\* byte of the other version or a wrong last byte, and zeros
Prefixes ==
    {KTX1Identifier, KTX2Identifier,
     [KTX1Identifier EXCEPT ![6] = 50], [KTX2Identifier EXCEPT ![6] = 49],
     [KTX1Identifier EXCEPT ![12] = 0], [i \in 1..12 |-> 0]}

\* the values of the width fields of the images
Widths == {1, 256, 65538, 2147483647}

\* the lengths of the images: cut inside the identifier, after it, and before
\* and after the fields of either version
ImageLengths == {8, 12, 27, 28, 43, 44, 48}

\* the four bytes of a little-endian uint32 field of an image
Uint32Field(n) ==
    <<n % 256, (n \div 256) % 256, (n \div 65536) % 256, (n \div 16777216) % 256>>

\* an image: the prefix, the fields at the offsets 20, 24, 36 and 40 (the
\* heights are the widths less one, and 5 in the other bytes), cut at len
Image(prefix, at20, at36, len) ==
    SubSeq(prefix \o [i \in 1..8 |-> 5] \o Uint32Field(at20) \o Uint32Field(at20 - 1)
           \o [i \in 1..8 |-> 5] \o Uint32Field(at36) \o Uint32Field(at36 - 1)
           \o [i \in 1..4 |-> 5], 1, len)

\* dataView.getUint32(offset, true); RangeError past the end of the view
getUint32(buffer, offset) ==
    IF offset + 4 > Len(buffer) THEN [threw |-> TRUE, value |-> 0]
    ELSE [threw |-> FALSE,
          value |-> buffer[offset + 1] + 256 * buffer[offset + 2]
                       + 65536 * buffer[offset + 3] + 16777216 * buffer[offset + 4]]

\* { pixelWidth: getUint32(w), pixelHeight: getUint32(h) }, or the RangeError
HeaderAt(buffer, w, h) ==
    LET pixelWidth == getUint32(buffer, w)
        pixelHeight == getUint32(buffer, h)
    IN IF pixelWidth.threw \/ pixelHeight.threw THEN [kind |-> "RangeError"]
       ELSE [kind |-> "header", pixelWidth |-> pixelWidth.value,
             pixelHeight |-> pixelHeight.value]

\* the loop over the identifier: buffer[i] is undefined past the end
MatchesIdentifier(buffer, identifier) ==
    \A i \in DOMAIN identifier : i <= Len(buffer) /\ buffer[i] = identifier[i]

\* a parseKTXHeader that reads the fields of either version at 36 and 40
parseKTXHeaderOneLayout(buffer) ==
    IF MatchesIdentifier(buffer, KTX1Identifier) \/ MatchesIdentifier(buffer, KTX2Identifier)
    THEN HeaderAt(buffer, 36, 40)
    ELSE [kind |-> "null"]

\* parseKTXHeader
parseKTXHeader(buffer) ==
    IF MatchesIdentifier(buffer, KTX1Identifier) THEN HeaderAt(buffer, 36, 40)
    ELSE IF MatchesIdentifier(buffer, KTX2Identifier) THEN HeaderAt(buffer, 20, 24)
    ELSE [kind |-> "null"]

InitHeader ==
    /\ tool = "header"
    /\ folderPath = "directory"
    /\ workerScript \in {"part_001", "GLBstatistics-01.js"}
    /\ files = <<>>
    /\ disk = {}
    /\ numCPUs = 1
    /\ dracoCompression = FALSE
    /\ ktx = FALSE
    /\ cpc = "init"
    /\ completedTasks = 0
    /\ activeProcesses = 0
    /\ child = <<>>
    /\ lastRun = NoRun
    /\ silentExit = FALSE
    /\ handled = 0
    /\ finishCount = 0
    /\ processed = 0
    /\ tilesetJson = <<>>
    /\ xjob = <<>>
    /\ manifest = "idle"
    /\ codec = NoCodec
    /\ scene = NoScene
    /\ lastPlan = <<>>
    /\ runs = 0
    /\ \E prefix \in Prefixes, at20 \in Widths, at36 \in Widths, len \in ImageLengths :
          pureCall = [fn |-> "parseKTXHeader", prefix |-> prefix, at20 |-> at20,
                      at36 |-> at36, buffer |-> Image(prefix, at20, at36, len),
                      done |-> FALSE, ktxHeader |-> [kind |-> "null"]]

\* const ktxHeader = parseKTXHeader(imageData)
HeaderCall ==
    /\ tool = "header"
    /\ ~pureCall.done
    /\ pureCall' = [pureCall EXCEPT !.done = TRUE, !.ktxHeader = parseKTXHeader(pureCall.buffer)]
    /\ UNCHANGED <<argVars, codec, manifest, disk, coordVars, jobVars, xjob, planVars>>

Next ==
    \/ Start
    \/ MainRejects
    \/ ProcessExit
    \/ \E i \in DOMAIN child : OnMessage(i)
    \/ \E i \in DOMAIN child : OnError(i)
    \/ \E i \in DOMAIN child : OnExit(i)
    \/ \E i \in DOMAIN child : FileVanishes(i)
    \/ \E i \in DOMAIN child : WorkerRun(i)
    \/ \E i \in DOMAIN child : WorkerCrash(i)
    \/ \E i \in DOMAIN child : SpawnError(i)
    \/ ExtractStart
    \/ \E i \in DOMAIN xjob : ExtractRead(i)
    \/ \E i \in DOMAIN xjob : ExtractWrite(i)
    \/ \E i \in DOMAIN xjob : ExtractUnlink(i)
    \/ ExtractManifestRead
    \/ ExtractManifestWrite

Init == InitCompress \/ InitExtract

\* the two tools that convert a tree: the compress coordinator with its workers,
\* and B3DM_Extract
Spec == Init /\ [][Next]_vars

\* the planning of the transforms alone
SpecPlan == InitPlan /\ [][PlanRun]_vars

\* the container codec alone
SpecCodec == InitCodec /\ [][NextCodec]_vars

\* the event loop runs every queued callback and every forked worker ends
SpecLive == Init /\ [][Next]_vars /\ WF_vars(Next)

\* the output path alone
SpecPaths == InitPaths /\ [][PathCall]_vars

\* the manifests alone
SpecManifest == InitManifest /\ [][NextManifest]_vars

\* the concurrency limit alone
SpecConcurrency == InitConcurrency /\ [][ConcurrencyCall]_vars

\* the texture header alone
SpecHeader == InitHeader /\ [][HeaderCall]_vars

(***************************************************************************)
(* The properties.                                                         *)
(***************************************************************************)
\* the workers that have been forked and are not over
Running == {i \in DOMAIN child : child[i].pc = "load"}

\* the 'message' and 'error' events that are queued
QueuedEvents(i) == child[i].pending + child[i].errors

\* nothing is left to happen in a run of the coordinator
Settled ==
    /\ tool = "compress"
    /\ cpc = "running"
    /\ Running = {}
    /\ \A i \in DOMAIN child : QueuedEvents(i) = 0

\* C1: finishProcessing runs only in a state where all K files have been
\* dispatched and no forked worker is still running.
C1_FinishOnlyWhenAllWorkersOver ==
    [][finishCount' > finishCount =>
          /\ completedTasks' = totalFiles
          /\ \A i \in DOMAIN child : child'[i].pc \in {"ended", "exited"}]_vars

\* C2: when the 'exit' event of a worker that died without a message (code
\* 134) is handled, the job is recorded as finished, its slot is freed
\* (activeProcesses goes down by one, the workers forked in the same step
\* apart) and a queued file, if any, is dispatched.
C2_SilentExitFreesTheSlot ==
    [][\A i \in DOMAIN child :
          (child[i].pc = "ended" /\ child[i].code = 134 /\ QueuedEvents(i) = 0
             /\ child'[i].pc = "exited") =>
          /\ handled' = handled + 1
          /\ activeProcesses' - (completedTasks' - completedTasks) = activeProcesses - 1
          /\ completedTasks < totalFiles => completedTasks' > completedTasks]_vars

\* C3: at every moment, the workers forked and not yet finished are at most numCPUs.
C3_AtMostNumCPUsRunning == Cardinality(Running) <= numCPUs

\* C4: every run of processFiles eventually reports completion, with exactly
\* K completions recorded and activeProcesses back at 0.
C4_EventuallyFinished ==
    tool = "compress" =>
       <>(finishCount >= 1 /\ handled = totalFiles /\ activeProcesses = 0)

\* C5: with the worker part_001 and no worker dying without a report, every
\* job, failed or not, is recorded exactly once (what has been dispatched is
\* running, queued as an event, or recorded), and once nothing is left to
\* happen all K files have been dispatched and exactly K completions recorded.
C5_FailureCountsOnceAndBatchGoesOn ==
    (tool = "compress" /\ workerScript = "part_001" /\ ~silentExit /\ cpc = "running") =>
       /\ LET queued == [i \in DOMAIN child |-> QueuedEvents(i)]
              Sum[n \in 0..Len(queued)] == IF n = 0 THEN 0 ELSE Sum[n - 1] + queued[n]
          IN handled + Sum[Len(queued)] + Cardinality(Running) = completedTasks
       /\ \A i \in DOMAIN child : QueuedEvents(i) <= 1
       /\ Settled => completedTasks = totalFiles /\ handled = totalFiles

\* a batch of three files on one slot is over, its second file "/a.glb" gone
\* from the disk: it vanished while its worker was loading and no other job
\* re-created it, so the second job reported 'File does not exist', and the
\* third file, queued behind it, was dispatched and recorded all the same
C5_Witness ==
    /\ Settled
    /\ workerScript = "part_001"
    /\ ~silentExit
    /\ numCPUs = 1
    /\ totalFiles = 3
    /\ files[2] = <<"/", "a">> \o DotGlb
    /\ files[2] \notin disk
    /\ handled = 3
    /\ finishCount = 1

\* C6: no two jobs of a run have the same output path.
C6_OutputPathsDistinct ==
    tool = "compress" =>
       \A i, j \in DOMAIN files :
          i # j => OutputFilePath(files[i]) # OutputFilePath(files[j])

\* C7: after a run whose transforms applied, planning again with the same
\* options on the resulting document pushes no transform.
C7_PlanningIdempotent ==
    (tool = "plan" /\ runs >= 1) =>
       PlanTransforms(getModelStatistics(scene), dracoCompression, ktx) = <<>>

\* C8: a run whose document.transform rejected writes no output, deletes no
\* input and reports an error (exit code 1).
C8_TransformFailureHasNoEffect ==
    (lastRun.i # 0 /\ lastRun.job.transformFailed) =>
       /\ lastRun.job.wrote = 0
       /\ lastRun.job.deleted = 0
       /\ lastRun.job.code = 1

\* C9: a .b3dm original is deleted only after its .glb was written; when
\* serialising or writing fails the original stays.  In the compress worker:
\* a run that unlinked has written, a run that failed at io.writeBinary or at
\* fs.writeFileSync has not unlinked, and the run that removes its input from
\* the disk leaves the output on it.  In B3DM_Extract: unlink is issued only
\* by a write callback without err, with the .glb on the disk, and a file
\* whose write failed is still there.
C9_DeleteOnlyAfterWrite ==
    /\ [](/\ (lastRun.i # 0 /\ lastRun.job.deleted > 0) => lastRun.job.wrote > 0
          /\ (lastRun.i # 0 /\ lastRun.job.failed \in {"serialise", "write"}) =>
                lastRun.job.deleted = 0
          /\ \A i \in DOMAIN xjob :
                /\ xjob[i].pc \in {"unlinking", "deleted"} =>
                      xjob[i].written /\ ReplaceFirst(files[i], DotB3dm, DotGlb) \in disk
                /\ ~xjob[i].written => files[i] \in disk)
    /\ [][\A i \in DOMAIN child :
             (child[i].pc = "load" /\ child'[i].pc = "ended" /\ files[i] \in disk) =>
                /\ files[i] \notin disk' =>
                      IsB3dm(files[i]) /\ OutputFilePath(files[i]) \in disk'
                /\ lastRun'.job.failed \in {"serialise", "write"} => files[i] \in disk']_vars

\* a compress worker has written the .glb and unlinked its .b3dm
C9_Witness ==
    /\ lastRun.i # 0
    /\ IsB3dm(files[lastRun.i])
    /\ lastRun.job.wrote = 1
    /\ lastRun.job.deleted = 1
    /\ files[lastRun.i] \notin disk
    /\ OutputFilePath(files[lastRun.i]) \in disk

\* C10: every run of a worker that reports (it did not die in native code)
\* sends exactly one message before it exits.
C10_ExactlyOneMessage ==
    (lastRun.i # 0 /\ lastRun.job.failed # "crash") => lastRun.job.sent = 1

\* C11: no manifest is read or rewritten while a conversion is in flight.  The
\* coordinator rewrites the manifests inside finishProcessing, so no worker
\* runs when finishProcessing is called; B3DM_Extract moves on with
\* tileset.json only when no readFile, writeFile or unlink of a tile is pending.
C11_ManifestAfterAllJobs ==
    [][/\ finishCount' > finishCount => Running = {}
       /\ manifest' # manifest => InFlight = {}]_vars

\* C12: every entry of the file list is handed to fork at most once, in list
\* order, and once finishProcessing has run every entry has been handed to it.
C12_EachFileDispatchedOnce ==
    tool = "compress" =>
       /\ completedTasks <= totalFiles
       /\ \A i \in DOMAIN child :
             /\ child[i].forks <= 1
             /\ child[i].forks = 1 <=> i <= completedTasks
       /\ finishCount >= 1 => \A i \in DOMAIN child : child[i].forks = 1

\* a run over three files has completed, each file forked once
C12_Witness ==
    /\ tool = "compress"
    /\ totalFiles = 3
    /\ finishCount >= 1
    /\ \A i \in DOMAIN child : child[i].forks = 1

\* a decoder has taken the payload, and io.readBinary, where it is asked, was
\* handed the very payload that had been put into the file
Accepted ==
    /\ tool = "codec"
    /\ codec.pc \in {"decoded", "encoded"}
    /\ codec.decoder = "app-02.js" \/ codec.parts.glbBytes = codec.glb

\* the feature table, the batch table and the payload of a container, by its header
TablesAndPayload(buf) ==
    LET ft == readInt32LE(buf, 12) + readInt32LE(buf, 16)
        bt == readInt32LE(buf, 20) + readInt32LE(buf, 24)
    IN <<SubSeq(buf, 29, 28 + ft), SubSeq(buf, 29 + ft, 28 + ft + bt),
         SubSeq(buf, 29 + ft + bt, Len(buf))>>

\* C13: a buffer whose payload a decoder takes has 28 bytes or more, its side
\* tables end and its payload starts inside the buffer, and its header's
\* byteLength is the length of the buffer.
C13_MalformedRejected ==
    Accepted =>
       /\ Len(codec.buffer) >= 28
       /\ 28 + codec.parts.featureTableLength <= Len(codec.buffer)
       /\ codec.parts.glbStart <= Len(codec.buffer)
       /\ codec.parts.byteLength = Len(codec.buffer)

\* C14: a container whose header agrees with its bytes, decoded and put
\* together again by compress.js around the same payload, keeps its feature
\* table, its batch table and its payload byte for byte.
C14_RoundTrip ==
    (tool = "codec" /\ codec.pc = "encoded" /\ codec.damage = "none"
        /\ codec.newGlb = codec.parts.glbBytes) =>
       /\ TablesAndPayload(codec.out) = TablesAndPayload(codec.buffer)
       /\ TablesAndPayload(codec.out)[3] = codec.glb

\* Scenario A put together again: feature table JSON of 10 bytes, payload of 100
C14_Witness ==
    /\ tool = "codec"
    /\ codec.pc = "encoded"
    /\ codec.damage = "none"
    /\ codec.newGlb = codec.parts.glbBytes
    /\ codec.parts.featureTableLength = 10
    /\ codec.parts.batchTableLength = 0
    /\ Len(codec.glb) = 100
    /\ Len(codec.out) = 138

\* C15: for every buffer a decoder accepts, byteLength is 28 plus the lengths
\* of the tables plus the length of the payload bytes extracted.
C15_HeaderArithmetic ==
    Accepted =>
       codec.parts.byteLength =
          28 + codec.parts.featureTableLength + codec.parts.batchTableLength
             + Len(codec.parts.glbBytes)

\* C16: the byteLength written into the new header is 28 plus the lengths of
\* the table bytes emitted plus the length of the new payload, it is the
\* length of the buffer emitted, and the four table-length fields are those
\* of the input header.
C16_LengthRecomputed ==
    (Accepted /\ codec.pc = "encoded") =>
       /\ readInt32LE(codec.out, 8) =
             28 + Len(codec.parts.featureTable) + Len(codec.parts.batchTable)
                + Len(codec.newGlb)
       /\ readInt32LE(codec.out, 8) = Len(codec.out)
       /\ SubSeq(codec.out, 13, 28) = SubSeq(codec.buffer, 13, 28)

\* C17: the payload a decoder extracts is the byte range from
\* 28 + the four table lengths up to the header's byteLength.
C17_PayloadRange ==
    Accepted =>
       /\ codec.parts.glbStart =
             28 + codec.parts.featureTableJSONByteLength
                + codec.parts.featureTableBinaryByteLength
                + codec.parts.batchTableJSONByteLength
                + codec.parts.batchTableBinaryByteLength
       /\ Len(codec.parts.glbBytes) = codec.parts.byteLength - codec.parts.glbStart
       /\ \A i \in 1..Len(codec.parts.glbBytes) :
             codec.parts.glbBytes[i] = codec.buffer[codec.parts.glbStart + i]

\* C18: the header fields are read as unsigned integers: none of them comes
\* out negative, nor does the payload start derived from them.
C18_FieldsUnsigned ==
    Accepted =>
       /\ codec.parts.magic >= 0
       /\ codec.parts.version >= 0
       /\ codec.parts.byteLength >= 0
       /\ codec.parts.featureTableJSONByteLength >= 0
       /\ codec.parts.featureTableBinaryByteLength >= 0
       /\ codec.parts.batchTableJSONByteLength >= 0
       /\ codec.parts.batchTableBinaryByteLength >= 0
       /\ codec.parts.glbStart >= 0

C20_AllTexturesKTX ==
    (tool = "plan" /\ runs >= 1 /\ ktx) =>
       \A i \in DOMAIN scene.textures : TextureEncoding(scene.textures[i]) = "KTX"

\* C21: one run of the worker writes at most one file and deletes at most one,
\* and it writes or deletes only when it ends with the success report and
\* exit code 0, never when it ends with an error report and exit code 1.
C21_SideEffectsOnlyOnSuccess ==
    lastRun.i # 0 =>
       /\ lastRun.job.wrote <= 1
       /\ lastRun.job.deleted <= 1
       /\ (lastRun.job.wrote > 0 \/ lastRun.job.deleted > 0) =>
             lastRun.job.failed = "" /\ lastRun.job.code = 0

\* C22: a run whose transforms array is empty (nothing was requested, or what
\* was requested is already in the document) is not an error.  Such a run
\* fails only where a run with transforms fails too, at io.writeBinary,
\* fs.writeFileSync or fs.unlinkSync; when none of these fails it writes the
\* output once, removes a .b3dm input, sends one message and exits with 0.
C22_EmptyPlanStillWrites ==
    (lastRun.i # 0 /\ lastRun.job.plan = {<<>>}) =>
       /\ lastRun.job.failed \in {"", "serialise", "write", "unlink"}
       /\ lastRun.job.failed = "" =>
             /\ lastRun.job.wrote = 1
             /\ lastRun.job.deleted = (IF IsB3dm(files[lastRun.i]) THEN 1 ELSE 0)
             /\ lastRun.job.sent = 1
             /\ lastRun.job.code = 0

\* a .b3dm was given to a run that requested draco, found it in the document,
\* wrote the .glb and removed the .b3dm
C22_Witness ==
    /\ lastRun.i # 0
    /\ dracoCompression
    /\ lastRun.job.plan = {<<>>}
    /\ lastRun.job.code = 0
    /\ IsB3dm(files[lastRun.i])
    /\ files[lastRun.i] \notin disk
    /\ OutputFilePath(files[lastRun.i]) \in disk

\* the path with its last n characters replaced by ext
WithExtension(file, n, ext) == SubSeq(file, 1, Len(file) - n) \o ext

\* C23: for an input path that ends in .b3dm the output path is the input
\* path with that final extension replaced by .glb, the directories and the
\* base name kept; for any other input the output path is the input path.
C23_OutputIsSibling ==
    (pureCall.fn = "outputFilePath" /\ pureCall.done) =>
       pureCall.outputFilePath =
          IF EndsWith(pureCall.file, DotB3dm)
          THEN WithExtension(pureCall.file, Len(DotB3dm), DotGlb)
          ELSE pureCall.file

\* the number of places where pat occurs in s
Count(s, pat) == Cardinality(Occurrences(s, pat))

\* the string values of a JSON value, in document order
RECURSIVE StringValues(_)
StringValues(obj) ==
    IF obj.t = "string" THEN <<obj.v>>
    ELSE IF obj.t = "array"
    THEN IF obj.v = <<>> THEN <<>>
         ELSE StringValues(Head(obj.v)) \o StringValues(JsonArray(Tail(obj.v)))
    ELSE IF obj.t = "object"
    THEN IF obj.v = <<>> THEN <<>>
         ELSE StringValues(Head(obj.v).value) \o StringValues(JsonObject(Tail(obj.v)))
    ELSE <<>>

\* the string values that hold .b3dm
Matching(obj) ==
    {i \in DOMAIN StringValues(obj) : Count(StringValues(obj)[i], DotB3dm) > 0}

\* C24: replaceB3dmWithGlb is idempotent: applied to what it returned, it
\* returns the same value.
C24_ReplaceIdempotent ==
    (pureCall.fn = "replaceB3dmWithGlb" /\ Len(pureCall.results) >= 2) =>
       pureCall.results[2] = pureCall.results[1]

\* the second call was made on a value that held .b3dm twice in one string,
\* inside an array inside an object
C24_Witness ==
    /\ pureCall.fn = "replaceB3dmWithGlb"
    /\ Len(pureCall.results) = 2
    /\ pureCall.obj.t = "object"
    /\ \E i \in DOMAIN pureCall.obj.v :
          /\ pureCall.obj.v[i].value.t = "array"
          /\ \E j \in DOMAIN pureCall.obj.v[i].value.v :
                /\ pureCall.obj.v[i].value.v[j].t = "string"
                /\ Count(pureCall.obj.v[i].value.v[j].v, DotB3dm) = 2
    /\ pureCall.results[1] # pureCall.obj

\* C25: in what replaceB3dmWithGlb returns no string value at any depth holds
\* .b3dm; the string values changed are those that held .b3dm, each with
\* every occurrence replaced by .glb, so a manifest with 3 such strings has
\* those 3 changed.
C25_NoB3dmLeft ==
    (pureCall.fn = "replaceB3dmWithGlb" /\ Len(pureCall.results) >= 1) =>
       LET before == StringValues(pureCall.obj)
           after == StringValues(pureCall.results[1])
       IN /\ Len(after) = Len(before)
          /\ Matching(pureCall.results[1]) = {}
          /\ \A i \in DOMAIN before :
                /\ after[i] # before[i] <=> i \in Matching(pureCall.obj)
                /\ Count(after[i], DotGlb) =
                      Count(before[i], DotGlb) + Count(before[i], DotB3dm)
                /\ Len(after[i]) = Len(before[i]) - Count(before[i], DotB3dm)

\* the call was made on a manifest with exactly 3 string values that hold
\* .b3dm, two of them in an array
C25_Witness ==
    /\ pureCall.fn = "replaceB3dmWithGlb"
    /\ Len(pureCall.results) = 1
    /\ Cardinality(Matching(pureCall.obj)) = 3
    /\ \E i \in DOMAIN pureCall.obj.v :
          /\ pureCall.obj.t = "object"
          /\ pureCall.obj.v[i].value.t = "array"
          /\ Cardinality(Matching(pureCall.obj.v[i].value)) = 2

\* b is a, but for its string values that hold .b3dm
RECURSIVE SameButMatching(_, _)
SameButMatching(a, b) ==
    /\ b.t = a.t
    /\ IF a.t = "string" THEN Count(a.v, DotB3dm) = 0 => b.v = a.v
       ELSE IF a.t = "array"
       THEN /\ Len(b.v) = Len(a.v)
            /\ \A i \in DOMAIN a.v : SameButMatching(a.v[i], b.v[i])
       ELSE IF a.t = "object"
       THEN /\ Len(b.v) = Len(a.v)
            /\ \A i \in DOMAIN a.v :
                  /\ b.v[i].key = a.v[i].key
                  /\ SameButMatching(a.v[i].value, b.v[i].value)
       ELSE b = a

\* C26: replaceB3dmWithGlb changes string values that hold .b3dm and nothing
\* else: the kinds of the values, the keys of every object and their order (a
\* key that holds .b3dm too), the length and order of every array, every
\* number, boolean and null, and every string without .b3dm stay as they were.
C26_ReplaceFrame ==
    (pureCall.fn = "replaceB3dmWithGlb" /\ Len(pureCall.results) >= 1) =>
       SameButMatching(pureCall.obj, pureCall.results[1])

\* the call changed a value under a key that holds .b3dm, in an object that
\* holds a string without .b3dm too
C26_Witness ==
    /\ pureCall.fn = "replaceB3dmWithGlb"
    /\ Len(pureCall.results) = 1
    /\ pureCall.obj.t = "object"
    /\ Len(pureCall.obj.v) = 2
    /\ pureCall.obj.v[1].key = B3dmKey
    /\ pureCall.results[1].v[1].value # pureCall.obj.v[1].value
    /\ pureCall.obj.v[2].value = JsonString(<<"x">> \o DotGlb)

\* the files under the entries given, at any depth, in traversal order
RECURSIVE FilesUnder(_)
FilesUnder(entries) ==
    IF entries = <<>> THEN <<>>
    ELSE (IF Head(entries).kind = "dir" THEN FilesUnder(Head(entries).entries)
          ELSE <<Head(entries)>>) \o FilesUnder(Tail(entries))

\* C27: updateTilesetJson handles each manifest on its own.  Every .json file
\* under the batch root, at any depth, that is read, parsed and written back
\* without failure is rewritten once with replaceB3dmWithGlb of its content; a
\* .json file whose read, parse or write fails is reported and keeps its
\* content; every other file is left alone; and no exception leaves
\* updateTilesetJson, whatever the other files are.
C27_ManifestsIndependent ==
    (pureCall.fn = "updateTilesetJson" /\ pureCall.done) =>
       LET before == FilesUnder(pureCall.before)
           after == FilesUnder(pureCall.root)
       IN /\ ~pureCall.threw
          /\ Len(after) = Len(before)
          /\ \A i \in DOMAIN before :
                IF ExtName(before[i].name) # DotJson THEN after[i] = before[i]
                ELSE IF before[i].fault = "none"
                THEN /\ after[i].content = replaceB3dmWithGlb(before[i].content)
                     /\ after[i].writes = 1
                     /\ after[i].report = "updated"
                ELSE /\ after[i].content = before[i].content
                     /\ after[i].writes = 0
                     /\ after[i].report = "error"

\* the first manifest of the root did not parse and the one two directories
\* down was unreadable; the manifest one directory down, reached between
\* them, and the one at the end of the root were rewritten to hold no .b3dm
C27_Witness ==
    /\ pureCall.fn = "updateTilesetJson"
    /\ pureCall.done
    /\ LET before == FilesUnder(pureCall.before)
           after == FilesUnder(pureCall.root)
       IN /\ before[1].fault = "parse" /\ after[1].report = "error"
          /\ before[3].fault = "read" /\ after[3].report = "error"
          /\ before[2].content = TilesetContent /\ after[2].report = "updated"
          /\ Matching(after[2].content) = {}
          /\ before[4].content = TilesetContent /\ after[4].report = "updated"
          /\ Matching(after[4].content) = {}

\* C28: when the folder argument is missing from the disk, is not a directory,
\* or holds no eligible file, the coordinator's process ends with a non-zero
\* exit code, and no worker is forked.
C28_NothingToDoIsAnError ==
    (tool = "compress" /\ (folderPath # "directory" \/ totalFiles = 0)) =>
       /\ \A i \in DOMAIN child : child[i].forks = 0
       /\ cpc \in {"exit0", "exit1"} => cpc = "exit1"

\* C29: the scheduler is work-conserving.  Once the initial runNextBatch has
\* run, either every file of the list has been dispatched or activeProcesses
\* equals numCPUs; and a handled completion that finds files still queued
\* forks the next worker in that very step, without waiting for the other
\* workers of the batch.
C29_WorkConserving ==
    /\ []((tool = "compress" /\ cpc \in {"running", "exit0"}) =>
             (completedTasks = totalFiles \/ activeProcesses = numCPUs))
    /\ [][(tool = "compress" /\ handled' = handled + 1 /\ completedTasks < totalFiles) =>
             /\ completedTasks' = completedTasks + 1
             /\ child'[completedTasks'].pc = "load"]_vars

\* with two slots and three files, the first completion was handled while the
\* second worker was running, and the third worker was forked next to it
C29_Witness ==
    /\ tool = "compress"
    /\ numCPUs = 2
    /\ totalFiles = 3
    /\ handled = 1
    /\ completedTasks = 3
    /\ child[2].pc = "load"
    /\ child[3].pc = "load"

\* C30: with the worker that sends one message per job (part_001), every
\* handled completion prints one 'Processed' figure, and the figure is the
\* number of completions handled so far: 0 at the start, one more with each
\* completion, never less than before and never more than totalFiles.
C30_ProcessedCountsCompletions ==
    /\ []((tool = "compress" /\ workerScript = "part_001") =>
             /\ processed = handled
             /\ processed <= totalFiles)
    /\ [][(tool = "compress" /\ workerScript = "part_001" /\ processed' # processed) =>
             /\ handled' = handled + 1
             /\ processed' = processed + 1]_vars

\* the third of three completions was handled with one slot, after the first
\* two, and 3 was printed
C30_Witness ==
    /\ tool = "compress"
    /\ workerScript = "part_001"
    /\ numCPUs = 1
    /\ totalFiles = 3
    /\ handled = 3
    /\ processed = 3
    /\ finishCount = 1

\* C31: for every number c >= 1 of CPUs, the concurrency limit processFiles
\* computes is max(1, c - 1): it is c - 1 from two CPUs on, and 1 otherwise,
\* so it is never below 1 and the first test of runNextBatch,
\* activeProcesses < numCPUs with no worker active, succeeds.
C31_DefaultConcurrency ==
    (tool = "concurrency" /\ pureCall.done) =>
       /\ numCPUs = Max({1, pureCall.cpus - 1})
       /\ numCPUs >= 1
       /\ activeProcesses < numCPUs

\* the limit was computed for a machine with one CPU
C31_Witness ==
    /\ tool = "concurrency"
    /\ pureCall.done
    /\ pureCall.cpus = 1
    /\ numCPUs = 1

\* the image begins with the 12 bytes given
BeginsWith(buffer, identifier) ==
    Len(buffer) >= Len(identifier) /\ SubSeq(buffer, 1, Len(identifier)) = identifier

\* C32, as stated: parseKTXHeader returns the fields at 36/40 exactly when the
\* first 12 bytes are the version-1 identifier, the fields at 20/24 exactly
\* when they are the version-2 identifier, and null for every other image.
C32_HeaderByVersion ==
    (pureCall.fn = "parseKTXHeader" /\ pureCall.done) =>
       IF BeginsWith(pureCall.buffer, KTX1Identifier)
       THEN pureCall.ktxHeader = [kind |-> "header", pixelWidth |-> pureCall.at36,
                                  pixelHeight |-> pureCall.at36 - 1]
       ELSE IF BeginsWith(pureCall.buffer, KTX2Identifier)
       THEN pureCall.ktxHeader = [kind |-> "header", pixelWidth |-> pureCall.at20,
                                  pixelHeight |-> pureCall.at20 - 1]
       ELSE pureCall.ktxHeader = [kind |-> "null"]

\* C32, amended: the same for an image that holds the fields of its version
\* (44 bytes for version 1, 28 for version 2); for a shorter image with one
\* of the identifiers getUint32 throws a RangeError; no image has both
\* identifiers.
C32_HeaderByVersionWhenLongEnough ==
    (pureCall.fn = "parseKTXHeader" /\ pureCall.done) =>
       /\ ~(BeginsWith(pureCall.buffer, KTX1Identifier)
            /\ BeginsWith(pureCall.buffer, KTX2Identifier))
       /\ IF BeginsWith(pureCall.buffer, KTX1Identifier)
          THEN pureCall.ktxHeader =
                  IF Len(pureCall.buffer) >= 44
                  THEN [kind |-> "header", pixelWidth |-> pureCall.at36,
                        pixelHeight |-> pureCall.at36 - 1]
                  ELSE [kind |-> "RangeError"]
          ELSE IF BeginsWith(pureCall.buffer, KTX2Identifier)
          THEN pureCall.ktxHeader =
                  IF Len(pureCall.buffer) >= 28
                  THEN [kind |-> "header", pixelWidth |-> pureCall.at20,
                        pixelHeight |-> pureCall.at20 - 1]
                  ELSE [kind |-> "RangeError"]
          ELSE pureCall.ktxHeader = [kind |-> "null"]

\* a version-2 image whose fields at 20 and at 36 differ was parsed, and the
\* width is the one at 20
C32_Witness ==
    /\ pureCall.fn = "parseKTXHeader"
    /\ pureCall.done
    /\ pureCall.prefix = KTX2Identifier
    /\ Len(pureCall.buffer) = 48
    /\ pureCall.at20 = 65538
    /\ pureCall.at36 = 256
    /\ pureCall.ktxHeader.kind = "header"
    /\ pureCall.ktxHeader.pixelWidth = 65538

\* the references of the manifest at the root of the folder
References(root) == root[1].content.v

\* C33: when finishProcessing rewrites the manifest, every reference it
\* changes from x.b3dm to x.glb names a file that is on the disk: the manifest
\* is not left referring to the .glb of a container whose job failed.
C33_ReferencesResolvable ==
    [][(tool = "compress" /\ workerScript = "part_001" /\ finishCount' > finishCount) =>
          \A i \in DOMAIN References(tilesetJson) :
             References(tilesetJson')[i] # References(tilesetJson)[i] =>
                References(tilesetJson')[i].v \in disk']_vars

\* C34: activeProcesses is the number of forked workers whose completion has
\* not been handled: it is never negative, never above numCPUs, and every
\* worker that is still running is counted in it.
C34_ActiveProcessesCountsWorkers ==
    tool = "compress" =>
       /\ activeProcesses >= 0
       /\ activeProcesses <= numCPUs
       /\ Cardinality(Running) <= activeProcesses

\* C35: finishProcessing runs at most once in a run of processFiles, whatever
\* the file list and the 'message' and 'error' events, a worker that raises
\* two events included; and the manifest is rewritten in no other step.
C35_FinishAtMostOnce ==
    /\ [](tool = "compress" => finishCount <= 1)
    /\ [][(tool = "compress" /\ tilesetJson' # tilesetJson) =>
             finishCount = 0 /\ finishCount' = 1]_vars

\* finishProcessing has run once, and the second message of a worker was
\* handled after it
C35_Witness ==
    /\ tool = "compress"
    /\ workerScript = "worker-02"
    /\ finishCount = 1
    /\ handled > totalFiles
    /\ activeProcesses < 0

\* C36: discovery and processing agree on what is eligible: a file that
\* findFiles returned is read by the worker as one of its supported inputs,
\* as a container when its lower-cased extension is .b3dm and as a bare
\* payload otherwise, whatever the case its extension is written in.
C36_DiscoveryAgreesWithWorker ==
    (tool = "compress" /\ lastRun.i # 0 /\ lastRun.job.failed \notin {"missing", "crash"}) =>
       /\ lastRun.job.failed # "unsupported"
       /\ IsB3dm(files[lastRun.i]) <=> ToLowerCase(ExtName(files[lastRun.i])) = DotB3dm

====
